---- MODULE Spec2Model ----
(***************************************************************************)
(* InvoiceBuilder: the invoice form's totals computation, the REST routes  *)
(* for items, taxes and invoices, and the SQLite-backed storage layer.     *)
(*                                                                         *)
(* Money is held in whole currency units and percentages in whole percent. *)
(* The enumerated prices are multiples of 50 and the percentages are even, *)
(* so every lineTotal * percentage / 100 of the model is exact and \div    *)
(* gives the value the JavaScript division gives.                          *)
(*                                                                         *)
(* The rows of invoice_line_items and item_taxes are kept in rowid order;  *)
(* their id column, a random UUID that no statement reads, is left out.    *)
(*                                                                         *)
(* An optional value (a form field that may be blank, a JSON key that may  *)
(* be missing) is a sequence of length 0 or 1: <<>> is absent, <<v>> is v. *)
(***************************************************************************)
EXTENDS Integers, Sequences, FiniteSets, TLC

VARIABLES
  customers,        \* table customers: set of ids
  taxes,            \* table taxes: set of [id, percentage]
  items,            \* table items: set of [id, unitPrice]
  itemTaxes,        \* table item_taxes in rowid order: [itemId, taxId]
  invoices,         \* table invoices: set of rows
  invoiceLineItems, \* table invoice_line_items in rowid order
  nextId,           \* per table, the identifiers crypto.randomUUID gave
  response,         \* the last request and the answer the route gave
  formMode,         \* InvoiceForm: "closed", or while mounted "create",
                    \* "edit", or "legacy" for the second copy
  formInvoice,      \* InvoiceForm: the invoice prop, <<>> for a new invoice
  formLineItems,    \* InvoiceForm: useState<LineItemForm[]>
  formItems,        \* InvoiceForm: the catalog fetched from /api/items
  formDiscount,     \* InvoiceForm: the discount input's value
  preview           \* InvoiceForm: the totals last computed for display

vars == <<customers, taxes, items, itemTaxes, invoices, invoiceLineItems,
          nextId, response, formMode, formInvoice, formLineItems, formItems,
          formDiscount, preview>>

storeVars == <<customers, taxes, items, itemTaxes, invoices,
               invoiceLineItems, nextId, response>>

formVars == <<formMode, formInvoice, formLineItems, formItems, formDiscount,
              preview>>

----------------------------------------------------------------------------
(* Bounds of the model                                                     *)

MaxLines == 2       \* line items held by one form or sent in one request
MaxTaxes == 2       \* taxes linked to one catalog item

----------------------------------------------------------------------------
(* Helpers                                                                 *)

Max(a, b) == IF a >= b THEN a ELSE b

SeqsUpTo(S, n) == UNION {[1..k -> S] : k \in 0..n}

RECURSIVE SumSeq(_)
SumSeq(s) == IF s = <<>> THEN 0 ELSE Head(s) + SumSeq(Tail(s))

\* Number(v) || 0 on an optional numeric field: blank or missing gives 0
NumberOrZero(field) == IF Len(field) = 0 THEN 0 ELSE field[1]

----------------------------------------------------------------------------
(* The invoice form: calculateTotals                                       *)

Blank == 0          \* the itemId of a line whose item is not selected yet

\* items.find((i) => String(i.id) === String(lineItem.itemId)):
\* the index of the first catalog entry with that id, 0 when there is none
find(catalog, itemId) ==
  LET hits == {i \in 1..Len(catalog) : catalog[i].id = itemId}
  IN IF hits = {} THEN 0 ELSE CHOOSE i \in hits : \A j \in hits : i <= j

\* the same loop with = written for +=
RECURSIVE taxLoopOverwrites(_, _, _)
taxLoopOverwrites(itemTaxList, lineTotal, totalTax) ==
  IF itemTaxList = <<>> THEN totalTax
  ELSE taxLoopOverwrites(Tail(itemTaxList), lineTotal,
                         (lineTotal * Head(itemTaxList)) \div 100)

\* item.taxes.forEach((tax) => totalTax += lineTotal * percentage / 100)
RECURSIVE taxLoop(_, _, _)
taxLoop(itemTaxList, lineTotal, totalTax) ==
  IF itemTaxList = <<>> THEN totalTax
  ELSE taxLoop(Tail(itemTaxList), lineTotal,
               totalTax + (lineTotal * Head(itemTaxList)) \div 100)

\* lineItems.forEach body of invoice-form.tsx: the line total is added
\* whether or not the item resolves, the taxes only when it does
RECURSIVE lineLoop(_, _, _)
lineLoop(lineItems, catalog, acc) ==
  IF lineItems = <<>> THEN acc
  ELSE LET lineItem == Head(lineItems)
           idx == find(catalog, lineItem.itemId)
           lineTotal == lineItem.quantity * lineItem.unitPrice
           tax == IF idx # 0
                  THEN taxLoop(catalog[idx].taxes, lineTotal, acc.totalTax)
                  ELSE acc.totalTax
       IN lineLoop(Tail(lineItems), catalog,
                   [subtotal |-> acc.subtotal + lineTotal, totalTax |-> tax])

\* the same function without Math.max(0, ...)
calculateTotalsNoClamp(lineItems, catalog, discountField) ==
  LET discount == NumberOrZero(discountField)
      acc == lineLoop(lineItems, catalog, [subtotal |-> 0, totalTax |-> 0])
  IN [outcome |-> "totals", subtotal |-> acc.subtotal,
      totalTax |-> acc.totalTax,
      total |-> acc.subtotal + acc.totalTax - discount]

calculateTotals(lineItems, catalog, discountField) ==
  LET discount == NumberOrZero(discountField)
      acc == lineLoop(lineItems, catalog, [subtotal |-> 0, totalTax |-> 0])
  IN [outcome |-> "totals", subtotal |-> acc.subtotal,
      totalTax |-> acc.totalTax,
      total |-> Max(0, acc.subtotal + acc.totalTax - discount)]

\* lineItems.forEach body of the second copy of the form: a line whose
\* item does not resolve adds nothing at all
RECURSIVE lineLoopLegacy(_, _, _)
lineLoopLegacy(lineItems, catalog, acc) ==
  IF lineItems = <<>> THEN acc
  ELSE LET lineItem == Head(lineItems)
           idx == find(catalog, lineItem.itemId)
           lineTotal == lineItem.quantity * lineItem.unitPrice
       IN lineLoopLegacy(Tail(lineItems), catalog,
            IF idx # 0
            THEN [subtotal |-> acc.subtotal + lineTotal,
                  totalTax |-> taxLoop(catalog[idx].taxes, lineTotal,
                                       acc.totalTax)]
            ELSE acc)

\* the second copy has no discount field and no clamp
calculateTotalsLegacy(lineItems, catalog) ==
  LET acc == lineLoopLegacy(lineItems, catalog,
                            [subtotal |-> 0, totalTax |-> 0])
  IN [outcome |-> "totals", subtotal |-> acc.subtotal,
      totalTax |-> acc.totalTax, total |-> acc.subtotal + acc.totalTax]

----------------------------------------------------------------------------
(* calculateTotals on JavaScript numbers. The operators above hold money   *)
(* in whole units, for which every sum, product and quotient they compute  *)
(* is exact; a price with a fraction (0.1) is a binary64 value, and +, *   *)
(* and / round their exact result to 53 significant bits, ties to even.    *)
(* A number is [neg, limbs, exp]: limbs is the significand in base 2^15,   *)
(* lowest limb first, the value is limbs * 2^exp, and the significand has  *)
(* exactly 53 bits (zero is Zero), so that === is =. The amounts of an     *)
(* invoice are far from the ends of the exponent range: overflow,          *)
(* subnormals, NaN and -0 do not arise.                                    *)

SignificandBits == 53

LimbBits == 15
Base == 2^LimbBits

Zero == [neg |-> FALSE, limbs |-> <<>>, exp |-> 0]

Limb(a, i) == IF i <= Len(a) THEN a[i] ELSE 0

\* a without its zero limbs at the top
RECURSIVE Trim(_)
Trim(a) ==
  IF a = <<>> \/ a[Len(a)] # 0 THEN a ELSE Trim(SubSeq(a, 1, Len(a) - 1))

RECURSIVE AddLimbs(_, _, _, _)
AddLimbs(a, b, i, carry) ==
  IF i > Len(a) /\ i > Len(b) THEN (IF carry = 0 THEN <<>> ELSE <<carry>>)
  ELSE LET t == Limb(a, i) + Limb(b, i) + carry
       IN <<t % Base>> \o AddLimbs(a, b, i + 1, t \div Base)

\* a - b for a >= b
RECURSIVE SubLimbs(_, _, _, _)
SubLimbs(a, b, i, borrow) ==
  IF i > Len(a) THEN <<>>
  ELSE LET t == Limb(a, i) - Limb(b, i) - borrow
       IN <<t % Base>> \o SubLimbs(a, b, i + 1, IF t < 0 THEN 1 ELSE 0)

RECURSIVE LessFrom(_, _, _)
LessFrom(a, b, i) ==
  IF i = 0 THEN FALSE
  ELSE IF a[i] # b[i] THEN a[i] < b[i]
  ELSE LessFrom(a, b, i - 1)

\* a < b, for a and b without zero limbs at the top
LessLimbs(a, b) ==
  IF Len(a) # Len(b) THEN Len(a) < Len(b) ELSE LessFrom(a, b, Len(a))

\* a * k for a limb k
RECURSIVE ScaleLimbs(_, _, _, _)
ScaleLimbs(a, k, i, carry) ==
  IF i > Len(a) THEN (IF carry = 0 THEN <<>> ELSE <<carry>>)
  ELSE LET t == a[i] * k + carry
       IN <<t % Base>> \o ScaleLimbs(a, k, i + 1, t \div Base)

RECURSIVE MulLimbs(_, _)
MulLimbs(a, b) ==
  IF b = <<>> THEN <<>>
  ELSE AddLimbs(ScaleLimbs(a, Head(b), 1, 0),
                <<0>> \o MulLimbs(a, Tail(b)), 1, 0)

\* the remainder that long division by the small integer n has when it
\* has taken the limbs of a from the highest down to limb i
RECURSIVE RemLimbs(_, _, _)
RemLimbs(a, n, i) ==
  IF i > Len(a) THEN 0 ELSE (RemLimbs(a, n, i + 1) * Base + a[i]) % n

\* the quotient of a by n, limb by limb
DivLimbs(a, n) ==
  [i \in 1..Len(a) |-> (RemLimbs(a, n, i + 1) * Base + a[i]) \div n]

RECURSIVE NatLimbs(_)
NatLimbs(k) == IF k = 0 THEN <<>> ELSE <<k % Base>> \o NatLimbs(k \div Base)

\* a * 2^k
ShiftLeftBits(a, k) ==
  IF a = <<>> THEN <<>>
  ELSE [i \in 1..(k \div LimbBits) |-> 0]
         \o ScaleLimbs(a, 2^(k % LimbBits), 1, 0)

\* a \div 2^k
ShiftRightBits(a, k) ==
  Trim(DivLimbs(SubSeq(a, (k \div LimbBits) + 1, Len(a)), 2^(k % LimbBits)))

\* a % 2^k # 0
LowBitsSet(a, k) ==
  \/ \E i \in 1..(k \div LimbBits) : Limb(a, i) # 0
  \/ RemLimbs(SubSeq(a, (k \div LimbBits) + 1, Len(a)),
              2^(k % LimbBits), 1) # 0

\* the number of bits of a, for a # <<>> without zero limbs at the top
BitLength(a) ==
  LimbBits * (Len(a) - 1)
    + (CHOOSE k \in 1..LimbBits : 2^(k - 1) <= a[Len(a)] /\ a[Len(a)] < 2^k)

\* the binary64 value nearest to limbs * 2^exp (plus a little when inexact
\* is TRUE), ties to the even significand
RoundToNumber(neg, limbs, exp, inexact) ==
  LET a == Trim(limbs)
      drop == BitLength(a) - SignificandBits
      withGuard == ShiftRightBits(a, drop - 1)
      kept == ShiftRightBits(withGuard, 1)
      above == inexact \/ LowBitsSet(a, drop - 1)
      up == withGuard[1] % 2 = 1 /\ (above \/ kept[1] % 2 = 1)
      rounded == IF up THEN AddLimbs(kept, <<1>>, 1, 0) ELSE kept
  IN IF a = <<>> THEN Zero
     ELSE IF drop <= 0
       THEN [neg |-> neg, limbs |-> ShiftLeftBits(a, -drop),
             exp |-> exp + drop]
     ELSE IF BitLength(rounded) > SignificandBits
       THEN [neg |-> neg, limbs |-> ShiftRightBits(rounded, 1),
             exp |-> exp + drop + 1]
     ELSE [neg |-> neg, limbs |-> rounded, exp |-> exp + drop]

\* x + y
Plus(x, y) ==
  LET e == IF x.exp <= y.exp THEN x.exp ELSE y.exp
      a == Trim(ShiftLeftBits(x.limbs, x.exp - e))
      b == Trim(ShiftLeftBits(y.limbs, y.exp - e))
  IN IF x.neg = y.neg
     THEN RoundToNumber(x.neg, AddLimbs(a, b, 1, 0), e, FALSE)
     ELSE IF LessLimbs(a, b)
       THEN RoundToNumber(y.neg, SubLimbs(b, a, 1, 0), e, FALSE)
     ELSE RoundToNumber(x.neg, SubLimbs(a, b, 1, 0), e, FALSE)

\* x - y
Minus(x, y) == Plus(x, [y EXCEPT !.neg = (y.limbs # <<>> /\ ~y.neg)])

\* x * y
Times(x, y) ==
  RoundToNumber(x.neg # y.neg, MulLimbs(x.limbs, y.limbs), x.exp + y.exp,
                FALSE)

\* x / n for the integer literal n (/ 100): the quotient is taken to more
\* than SignificandBits bits before it is rounded
DividedBy(x, n) ==
  LET extra == SignificandBits + LimbBits
      dividend == ShiftLeftBits(x.limbs, extra)
  IN RoundToNumber(x.neg, DivLimbs(dividend, n), x.exp - extra,
                   RemLimbs(dividend, n, 1) # 0)

\* the number an integer is
Integer(k) ==
  RoundToNumber(k < 0, NatLimbs(IF k < 0 THEN -k ELSE k), 0, FALSE)

\* parseFloat / Number of a decimal text with two fraction digits, given in
\* hundredths: the binary64 value nearest to hundredths / 100
Hundredths(h) == DividedBy(Integer(h), 100)

\* Number(form.watch("discount")) || 0
NumberOrZeroOf(field) == IF Len(field) = 0 THEN Zero ELSE Hundredths(field[1])

\* item.taxes.forEach((tax) =>
\*   totalTax += (lineTotal * Number(tax.percentage)) / 100)
RECURSIVE taxLoopNumbers(_, _, _)
taxLoopNumbers(itemTaxList, lineTotal, totalTax) ==
  IF itemTaxList = <<>> THEN totalTax
  ELSE taxLoopNumbers(
         Tail(itemTaxList), lineTotal,
         Plus(totalTax,
              DividedBy(Times(lineTotal, Integer(Head(itemTaxList))), 100)))

\* lineItems.forEach body of invoice-form.tsx
RECURSIVE lineLoopNumbers(_, _, _)
lineLoopNumbers(lineItems, catalog, acc) ==
  IF lineItems = <<>> THEN acc
  ELSE LET lineItem == Head(lineItems)
           idx == find(catalog, lineItem.itemId)
           lineTotal == Times(lineItem.quantity, lineItem.unitPrice)
           tax == IF idx # 0
                  THEN taxLoopNumbers(catalog[idx].taxes, lineTotal,
                                      acc.totalTax)
                  ELSE acc.totalTax
       IN lineLoopNumbers(Tail(lineItems), catalog,
                          [subtotal |-> Plus(acc.subtotal, lineTotal),
                           totalTax |-> tax])

\* calculateTotals of invoice-form.tsx; Math.max(0, x) is 0 for x < 0
calculateTotalsNumbers(lineItems, catalog, discountField) ==
  LET discount == NumberOrZeroOf(discountField)
      acc == lineLoopNumbers(lineItems, catalog,
                             [subtotal |-> Zero, totalTax |-> Zero])
      total == Minus(Plus(acc.subtotal, acc.totalTax), discount)
  IN [outcome |-> "totals", subtotal |-> acc.subtotal,
      totalTax |-> acc.totalTax,
      total |-> IF total.neg THEN Zero ELSE total]

----------------------------------------------------------------------------
(* The database: tables, constraints and single SQL statements             *)

\* better-sqlite3 opens the database with foreign keys enforced
ForeignKeysOn == TRUE

\* invoices.discount exists in the migration only, with DEFAULT 0; the
\* table object the statements are built from has no such column
DiscountDefault == 0

DB == [customers |-> customers, taxes |-> taxes, items |-> items,
       itemTaxes |-> itemTaxes, invoices |-> invoices,
       invoiceLineItems |-> invoiceLineItems, nextId |-> nextId]

Ids(table) == {row.id : row \in table}

\* the value of an object's key: <<>> when the key is missing
Get(obj, key) == IF key \in DOMAIN obj THEN obj[key] ELSE <<>>

Ok(db) == [ok |-> TRUE, db |-> db, message |-> ""]
Thrown(db, message) == [ok |-> FALSE, db |-> db, message |-> message]

\* .set(values) of an UPDATE: drizzle throws when values holds no value
NoValues(set) == \A k \in DOMAIN set : Len(set[k]) = 0

\* INSERT INTO invoices: the columns of the table object are taken from
\* values, every other key of values is ignored
insertInvoiceRow(db, values) ==
  LET present == \A c \in {"invoiceNumber", "customerId", "subtotal",
                           "totalTax", "total"} : Len(Get(values, c)) = 1
      row == [id |-> values.id,
              invoiceNumber |-> values.invoiceNumber[1],
              customerId |-> values.customerId[1],
              subtotal |-> values.subtotal[1],
              totalTax |-> values.totalTax[1],
              discount |-> DiscountDefault,
              total |-> values.total[1],
              status |-> IF Len(Get(values, "status")) = 0 THEN "pending"
                         ELSE values.status[1]]
  IN IF ~present
       THEN Thrown(db, "NOT NULL constraint failed: invoices")
     ELSE IF ForeignKeysOn /\ row.customerId \notin db.customers
       THEN Thrown(db, "FOREIGN KEY constraint failed")
     ELSE Ok([db EXCEPT !.invoices = @ \cup {row},
                        !.nextId.invoices = row.id])

\* an insert that the unique index on invoice_number does not guard
insertInvoiceNoUnique(db, values) == insertInvoiceRow(db, values)

\* the insert under CREATE UNIQUE INDEX invoices_invoice_number_unique
insertInvoice(db, values) ==
  IF /\ Len(Get(values, "invoiceNumber")) = 1
     /\ \E inv \in db.invoices : inv.invoiceNumber = values.invoiceNumber[1]
  THEN Thrown(db, "UNIQUE constraint failed: invoices.invoice_number")
  ELSE insertInvoiceRow(db, values)

\* UPDATE invoices SET ... WHERE id = ?: only the columns set holds
updateInvoiceRowNoUnique(db, id, set) ==
  LET Upd(row) ==
        [row EXCEPT
           !.invoiceNumber = IF Len(Get(set, "invoiceNumber")) = 1
                             THEN set.invoiceNumber[1] ELSE @,
           !.customerId = IF Len(Get(set, "customerId")) = 1
                          THEN set.customerId[1] ELSE @,
           !.subtotal = IF Len(Get(set, "subtotal")) = 1
                        THEN set.subtotal[1] ELSE @,
           !.totalTax = IF Len(Get(set, "totalTax")) = 1
                        THEN set.totalTax[1] ELSE @,
           !.total = IF Len(Get(set, "total")) = 1
                     THEN set.total[1] ELSE @,
           !.status = IF Len(Get(set, "status")) = 1
                      THEN set.status[1] ELSE @]
      hit == {row \in db.invoices : row.id = id}
  IN IF ForeignKeysOn /\ \E row \in hit : Upd(row).customerId \notin db.customers
       THEN Thrown(db, "FOREIGN KEY constraint failed")
     ELSE Ok([db EXCEPT !.invoices = (@ \ hit) \cup {Upd(row) : row \in hit}])

updateInvoiceRow(db, id, set) ==
  IF NoValues(set) THEN Thrown(db, "No values to set")
  ELSE IF
     /\ Len(Get(set, "invoiceNumber")) = 1
     /\ \E row \in db.invoices : row.id = id
     /\ \E other \in db.invoices :
          other.id # id /\ other.invoiceNumber = set.invoiceNumber[1]
  THEN Thrown(db, "UNIQUE constraint failed: invoices.invoice_number")
  ELSE updateInvoiceRowNoUnique(db, id, set)

\* a DELETE that removes no row: what an update that only appended the new
\* lines would amount to
deleteLineItemsOfNone(db, id) == Ok(db)

\* DELETE FROM invoice_line_items WHERE invoice_id = ?
deleteLineItemsOf(db, id) ==
  Ok([db EXCEPT !.invoiceLineItems =
        SelectSeq(@, LAMBDA row : row.invoiceId # id)])

\* INSERT INTO invoice_line_items VALUES (...), (...): one statement, so
\* either every row is stored or none is
insertLineItems(db, rows) ==
  IF ForeignKeysOn /\ \E i \in 1..Len(rows) :
       \/ rows[i].invoiceId \notin Ids(db.invoices)
       \/ rows[i].itemId \notin Ids(db.items)
  THEN Thrown(db, "FOREIGN KEY constraint failed")
  ELSE Ok([db EXCEPT !.invoiceLineItems = @ \o rows])

\* a DELETE FROM invoices that leaves the line items of the invoice behind
deleteInvoiceRowNoCascade(db, id) ==
  Ok([db EXCEPT !.invoices = {row \in @ : row.id # id}])

\* DELETE FROM invoices WHERE id = ?, with ON DELETE cascade of the lines
deleteInvoiceRow(db, id) ==
  Ok([db EXCEPT
        !.invoices = {row \in @ : row.id # id},
        !.invoiceLineItems =
          IF ForeignKeysOn
          THEN SelectSeq(@, LAMBDA row : row.invoiceId # id) ELSE @])

\* UPDATE items SET ... WHERE id = ?
updateItemRow(db, id, set) ==
  IF NoValues(set) THEN Thrown(db, "No values to set")
  ELSE
  Ok([db EXCEPT !.items =
        {IF row.id = id /\ Len(Get(set, "unitPrice")) = 1
         THEN [row EXCEPT !.unitPrice = set.unitPrice[1]] ELSE row
           : row \in @}])

\* DELETE FROM item_taxes WHERE item_id = ?
deleteItemTaxesOf(db, id) ==
  Ok([db EXCEPT !.itemTaxes = SelectSeq(@, LAMBDA row : row.itemId # id)])

\* INSERT INTO item_taxes VALUES (...), (...)
insertItemTaxes(db, rows) ==
  IF ForeignKeysOn /\ \E i \in 1..Len(rows) :
       \/ rows[i].itemId \notin Ids(db.items)
       \/ rows[i].taxId \notin Ids(db.taxes)
  THEN Thrown(db, "FOREIGN KEY constraint failed")
  ELSE Ok([db EXCEPT !.itemTaxes = @ \o rows])

\* INSERT INTO items
insertItemRow(db, values) ==
  IF Len(Get(values, "unitPrice")) = 0
  THEN Thrown(db, "NOT NULL constraint failed: items.unit_price")
  ELSE Ok([db EXCEPT
             !.items = @ \cup {[id |-> values.id,
                                unitPrice |-> values.unitPrice[1]]},
             !.nextId.items = values.id])

\* a DELETE FROM items that takes the line items of the item with it
deleteItemRowWithLines(db, id) ==
  Ok([db EXCEPT
        !.items = {row \in @ : row.id # id},
        !.itemTaxes = SelectSeq(@, LAMBDA row : row.itemId # id),
        !.invoiceLineItems = SelectSeq(@, LAMBDA row : row.itemId # id)])

\* DELETE FROM items WHERE id = ?: invoice_line_items.item_id refers to
\* items ON DELETE no action, item_taxes.item_id ON DELETE cascade
deleteItemRow(db, id) ==
  IF ForeignKeysOn /\ \E i \in 1..Len(db.invoiceLineItems) :
                        db.invoiceLineItems[i].itemId = id
  THEN Thrown(db, "FOREIGN KEY constraint failed")
  ELSE Ok([db EXCEPT
             !.items = {row \in @ : row.id # id},
             !.itemTaxes =
               IF ForeignKeysOn
               THEN SelectSeq(@, LAMBDA row : row.itemId # id) ELSE @])

\* INSERT INTO taxes
insertTaxRow(db, values) ==
  IF Len(Get(values, "percentage")) = 0
  THEN Thrown(db, "NOT NULL constraint failed: taxes.percentage")
  ELSE Ok([db EXCEPT
             !.taxes = @ \cup {[id |-> values.id,
                                percentage |-> values.percentage[1]]},
             !.nextId.taxes = values.id])

\* a DELETE FROM taxes that leaves the links to the tax behind
deleteTaxRowNoCascade(db, id) ==
  Ok([db EXCEPT !.taxes = {row \in @ : row.id # id}])

\* DELETE FROM taxes WHERE id = ?: item_taxes.tax_id refers to taxes ON
\* DELETE cascade
deleteTaxRow(db, id) ==
  Ok([db EXCEPT
        !.taxes = {row \in @ : row.id # id},
        !.itemTaxes =
          IF ForeignKeysOn
          THEN SelectSeq(@, LAMBDA row : row.taxId # id) ELSE @])

----------------------------------------------------------------------------
(* DatabaseStorage: the storage methods, statement by statement.  A method  *)
(* that throws leaves the database as its completed statements made it.     *)

\* errorMessage.toLowerCase().includes("discount")
MentionsDiscount(message) ==
  message = "table invoices has no column named discount"

\* lineItems.map(item => ({...item, id, invoiceId, unitPrice: Number(..),
\* total: Number(item.total), quantity: Number(item.quantity)}))
lineItemsWithInvoiceId(lineItems, id) ==
  [i \in 1..Len(lineItems) |->
     [invoiceId |-> id,
      itemId |-> lineItems[i].itemId,
      quantity |-> lineItems[i].quantity,
      unitPrice |-> lineItems[i].unitPrice,
      total |-> lineItems[i].total]]

\* fault: the error the driver raises on the first INSERT of the invoice
\* row whatever the row is ("" for none)
createInvoice(db, invoice, lineItems, fault) ==
  LET id == db.nextId.invoices + 1
      processedInvoice ==
        [id |-> id,
         invoiceNumber |-> Get(invoice, "invoiceNumber"),
         customerId |-> Get(invoice, "customerId"),
         status |-> Get(invoice, "status"),
         subtotal |-> Get(invoice, "subtotal"),
         totalTax |-> Get(invoice, "totalTax"),
         discount |-> <<NumberOrZero(Get(invoice, "discount"))>>,
         total |-> Get(invoice, "total")]
      cleanInvoice ==
        [k \in DOMAIN processedInvoice \ {"discount"} |-> processedInvoice[k]]
      first == IF fault # "" THEN Thrown(db, fault)
               ELSE insertInvoice(db, processedInvoice)
      row == IF first.ok THEN first
             ELSE IF MentionsDiscount(first.message)
               THEN insertInvoice(db, cleanInvoice)
             ELSE first
      lines == IF ~row.ok THEN row
               ELSE IF Len(lineItems) > 0
                 THEN insertLineItems(row.db,
                                      lineItemsWithInvoiceId(lineItems, id))
               ELSE row
  IN [ok |-> lines.ok, db |-> lines.db, id |-> id, message |-> lines.message,
      inserts |-> IF ~first.ok /\ MentionsDiscount(first.message)
                  THEN 2 ELSE 1,
      raised |-> first.message]

updateInvoice(db, id, invoice, lineItems) ==
  LET updated == updateInvoiceRow(db, id, invoice)
      deleted == IF updated.ok THEN deleteLineItemsOf(updated.db, id)
                 ELSE updated
      lines == IF ~deleted.ok THEN deleted
               ELSE IF Len(lineItems) > 0
                 THEN insertLineItems(deleted.db,
                                      lineItemsWithInvoiceId(lineItems, id))
               ELSE deleted
  IN [ok |-> lines.ok, db |-> lines.db, id |-> id, message |-> lines.message]

deleteInvoice(db, id) ==
  LET deleted == deleteInvoiceRow(db, id)
  IN [ok |-> deleted.ok, db |-> deleted.db, id |-> id,
      message |-> deleted.message]

\* taxIds.map(taxId => ({id, itemId: id, taxId}))
itemTaxData(taxIds, id) ==
  [i \in 1..Len(taxIds) |-> [itemId |-> id, taxId |-> taxIds[i]]]

updateItem(db, id, item, taxIds) ==
  LET updated == updateItemRow(db, id, item)
      deleted == IF updated.ok THEN deleteItemTaxesOf(updated.db, id)
                 ELSE updated
      links == IF ~deleted.ok THEN deleted
               ELSE IF Len(taxIds) > 0
                 THEN insertItemTaxes(deleted.db, itemTaxData(taxIds, id))
               ELSE deleted
  IN [ok |-> links.ok, db |-> links.db, id |-> id, message |-> links.message]

createItem(db, item, taxIds) ==
  LET id == db.nextId.items + 1
      row == insertItemRow(db, [unitPrice |-> Get(item, "unitPrice"),
                                id |-> id])
      links == IF ~row.ok THEN row
               ELSE IF Len(taxIds) > 0
                 THEN insertItemTaxes(row.db, itemTaxData(taxIds, id))
               ELSE row
  IN [ok |-> links.ok, db |-> links.db, id |-> id, message |-> links.message]

deleteItem(db, id) ==
  LET deleted == deleteItemRow(db, id)
  IN [ok |-> deleted.ok, db |-> deleted.db, id |-> id,
      message |-> deleted.message]

createTax(db, tax) ==
  LET id == db.nextId.taxes + 1
      row == insertTaxRow(db, [percentage |-> Get(tax, "percentage"),
                               id |-> id])
  IN [ok |-> row.ok, db |-> row.db, id |-> id, message |-> row.message]

deleteTax(db, id) ==
  LET deleted == deleteTaxRow(db, id)
  IN [ok |-> deleted.ok, db |-> deleted.db, id |-> id,
      message |-> deleted.message]

\* a count that takes every invoice that is not paid for a pending one
getInvoiceStatsTwoWay(db) ==
  [total |-> Cardinality(db.invoices),
   paid |-> Cardinality({i \in db.invoices : i.status = "paid"}),
   pending |-> Cardinality({i \in db.invoices : i.status # "paid"}),
   overdue |-> 0]

\* allInvoices.length and allInvoices.filter(i => i.status === ...).length
getInvoiceStats(db) ==
  LET allInvoices == db.invoices
      filter(status) == {i \in allInvoices : i.status = status}
  IN [total |-> Cardinality(allInvoices),
      paid |-> Cardinality(filter("paid")),
      pending |-> Cardinality(filter("pending")),
      overdue |-> Cardinality(filter("overdue"))]

\* the other copy of the storage: SELECT count(*), count(*) filter (where
\* status = 'paid'), ... FROM invoices
getInvoiceStatsSql(db) ==
  LET count(where(_)) == Cardinality({row \in db.invoices : where(row)})
  IN [total |-> count(LAMBDA row : TRUE),
      paid |-> count(LAMBDA row : row.status = "paid"),
      pending |-> count(LAMBDA row : row.status = "pending"),
      overdue |-> count(LAMBDA row : row.status = "overdue")]

----------------------------------------------------------------------------
(* The routes                                                              *)

\* the keys insertInvoiceSchema knows: every other key of the body, the
\* discount included, is stripped by parse
InvoiceSchemaKeys ==
  {"invoiceNumber", "customerId", "status", "subtotal", "totalTax", "total"}

InvoiceRequiredKeys ==
  {"invoiceNumber", "customerId", "subtotal", "totalTax", "total"}

\* insertInvoiceSchema.parse(invoiceData)
insertInvoiceSchemaParse(invoiceData) ==
  IF \E k \in InvoiceRequiredKeys : Len(Get(invoiceData, k)) = 0
  THEN [ok |-> FALSE, value |-> <<>>]
  ELSE [ok |-> TRUE,
        value |-> [k \in DOMAIN invoiceData \cap InvoiceSchemaKeys |->
                     invoiceData[k]]]

\* insertInvoiceSchema.partial().parse(invoiceData)
insertInvoiceSchemaPartialParse(invoiceData) ==
  [ok |-> TRUE,
   value |-> [k \in DOMAIN invoiceData \cap InvoiceSchemaKeys |->
                invoiceData[k]]]

\* const { lineItems, ...invoiceData } = req.body
RestOf(body, key) == [k \in DOMAIN body \ {key} |-> body[k]]

\* lineItems || [], taxIds || []
OrEmpty(field) == IF Len(field) = 0 THEN <<>> ELSE field[1]

Commit(db) ==
  /\ customers' = db.customers
  /\ taxes' = db.taxes
  /\ items' = db.items
  /\ itemTaxes' = db.itemTaxes
  /\ invoices' = db.invoices
  /\ invoiceLineItems' = db.invoiceLineItems
  /\ nextId' = db.nextId

\* res.status(400).json({message: "Invalid ... data", errors}) and
\* res.status(500).json({message: "Failed to ..."}): the message of the
\* answer, "" for an answer that carries none
ResponseMessage(route, status) ==
  LET noun == CASE route \in {"POST /api/invoices", "PUT /api/invoices/:id",
                               "DELETE /api/invoices/:id"} -> "invoice"
                [] route \in {"POST /api/items", "PUT /api/items/:id",
                               "DELETE /api/items/:id"} -> "item"
                [] route \in {"POST /api/taxes", "DELETE /api/taxes/:id"}
                     -> "tax"
                [] OTHER -> "invoice stats"
      verb == CASE route \in {"POST /api/invoices", "POST /api/items",
                               "POST /api/taxes"} -> "create"
                [] route \in {"PUT /api/invoices/:id", "PUT /api/items/:id"}
                     -> "update"
                [] route \in {"DELETE /api/invoices/:id",
                               "DELETE /api/items/:id",
                               "DELETE /api/taxes/:id"} -> "delete"
                [] OTHER -> "fetch"
  IN IF status < 400 THEN ""
     ELSE IF status = 400 THEN "Invalid " \o noun \o " data"
     ELSE "Failed to " \o verb \o " " \o noun

\* what the model keeps of a request and its answer: the route, the id of
\* the path (or of the row created), the status code, the message of the
\* answer, the message of the error the storage threw (the route drops it
\* and answers with a fixed text), for a request answered with success the
\* child list it carried, the counts a stats request was answered with,
\* and of a createInvoice the number of INSERTs of the invoice row it
\* issued and the error the first of them raised
Answer(route, id, children, status, message) ==
  [route |-> route, id |-> id, status |-> status,
   message |-> ResponseMessage(route, status),
   error |-> message,
   children |-> IF status < 400 THEN children ELSE <<>>,
   stats |-> <<>>, inserts |-> 0, raised |-> ""]

Respond(route, id, children, status, message) ==
  response' = Answer(route, id, children, status, message)

\* app.post("/api/invoices"): what it does to the database and answers
PostInvoiceHandler(body, fault) ==
  LET parsed == insertInvoiceSchemaParse(RestOf(body, "lineItems"))
      result == createInvoice(DB, parsed.value,
                              OrEmpty(Get(body, "lineItems")), fault)
  IN IF ~parsed.ok
       THEN /\ Commit(DB)
            /\ Respond("POST /api/invoices", 0, <<>>, 400, "ZodError")
     ELSE /\ Commit(result.db)
          /\ response' =
               [Answer("POST /api/invoices", result.id,
                       OrEmpty(Get(body, "lineItems")),
                       IF result.ok THEN 201 ELSE 500, result.message)
                  EXCEPT !.inserts = result.inserts,
                         !.raised = result.raised]

PostInvoice(body, fault) ==
  PostInvoiceHandler(body, fault) /\ UNCHANGED formVars

\* app.put("/api/invoices/:id"): what it does to the database and answers
PutInvoiceHandler(id, body) ==
  LET parsed == insertInvoiceSchemaPartialParse(RestOf(body, "lineItems"))
      result == updateInvoice(DB, id, parsed.value,
                              OrEmpty(Get(body, "lineItems")))
  IN /\ Commit(result.db)
     /\ Respond("PUT /api/invoices/:id", id,
                OrEmpty(Get(body, "lineItems")),
                IF result.ok THEN 200 ELSE 500, result.message)

PutInvoice(id, body) ==
  PutInvoiceHandler(id, body) /\ UNCHANGED formVars

\* app.delete("/api/invoices/:id")
DeleteInvoice(id) ==
  LET result == deleteInvoice(DB, id)
  IN /\ UNCHANGED formVars
     /\ Commit(result.db)
     /\ Respond("DELETE /api/invoices/:id", id, <<>>,
                IF result.ok THEN 204 ELSE 500, result.message)

\* app.put("/api/items/:id")
PutItem(id, body) ==
  LET result == updateItem(DB, id, RestOf(body, "taxIds"),
                           OrEmpty(Get(body, "taxIds")))
  IN /\ UNCHANGED formVars
     /\ Commit(result.db)
     /\ Respond("PUT /api/items/:id", id, OrEmpty(Get(body, "taxIds")),
                IF result.ok THEN 200 ELSE 500, result.message)

\* app.get("/api/invoices/stats"), answered by either copy of the storage
GetInvoiceStats ==
  \E stats \in {getInvoiceStats(DB), getInvoiceStatsSql(DB)} :
    /\ UNCHANGED formVars
    /\ Commit(DB)
    /\ response' = [Answer("GET /api/invoices/stats", 0, <<>>, 200, "")
                      EXCEPT !.stats = <<stats>>]

\* insertItemSchema.parse(itemData), insertTaxSchema.parse(req.body): the
\* key that must be there is
requiredKeyParse(data, key) ==
  IF Len(Get(data, key)) = 0 THEN [ok |-> FALSE, value |-> <<>>]
  ELSE [ok |-> TRUE, value |-> [k \in {key} |-> data[k]]]

\* app.post("/api/items")
PostItem(body) ==
  LET parsed == requiredKeyParse(RestOf(body, "taxIds"), "unitPrice")
      result == createItem(DB, parsed.value, OrEmpty(Get(body, "taxIds")))
  IN /\ UNCHANGED formVars
     /\ IF ~parsed.ok
          THEN /\ Commit(DB)
               /\ Respond("POST /api/items", 0, <<>>, 400, "ZodError")
        ELSE /\ Commit(result.db)
             /\ Respond("POST /api/items", result.id,
                        OrEmpty(Get(body, "taxIds")),
                        IF result.ok THEN 201 ELSE 500, result.message)

\* app.delete("/api/items/:id")
DeleteItem(id) ==
  LET result == deleteItem(DB, id)
  IN /\ UNCHANGED formVars
     /\ Commit(result.db)
     /\ Respond("DELETE /api/items/:id", id, <<>>,
                IF result.ok THEN 204 ELSE 500, result.message)

\* app.post("/api/taxes")
PostTax(body) ==
  LET parsed == requiredKeyParse(body, "percentage")
      result == createTax(DB, parsed.value)
  IN /\ UNCHANGED formVars
     /\ IF ~parsed.ok
          THEN /\ Commit(DB)
               /\ Respond("POST /api/taxes", 0, <<>>, 400, "ZodError")
        ELSE /\ Commit(result.db)
             /\ Respond("POST /api/taxes", result.id, <<>>,
                        IF result.ok THEN 201 ELSE 500, result.message)

\* app.delete("/api/taxes/:id")
DeleteTax(id) ==
  LET result == deleteTax(DB, id)
  IN /\ UNCHANGED formVars
     /\ Commit(result.db)
     /\ Respond("DELETE /api/taxes/:id", id, <<>>,
                IF result.ok THEN 204 ELSE 500, result.message)

----------------------------------------------------------------------------
(* Requests                                                                *)

MaxInvoices == 2    \* invoices created over a run

InvoiceNumbers == {"INV-1", "INV-2"}
StatusInputs == {"pending", "paid"}
\* errors of the driver on the INSERT of the invoice row that no
\* constraint of the schema explains ("" for none)
InsertFaults ==
  {"", "disk I/O error", "table invoices has no column named discount"}

\* line items as a caller of the API may send them: the line the form
\* would build, the same line with a total of the caller's own, and a line
\* of an item that is not stored
GhostItem == 9
LineInputs ==
  {[itemId |-> 1, quantity |-> 2, unitPrice |-> 100, total |-> 200],
   [itemId |-> 1, quantity |-> 2, unitPrice |-> 100, total |-> 5],
   [itemId |-> GhostItem, quantity |-> 1, unitPrice |-> 50, total |-> 50]}

InvoiceBodies ==
  {[invoiceNumber |-> <<n>>, customerId |-> <<1>>, status |-> <<s>>,
    subtotal |-> <<200>>, totalTax |-> <<36>>, total |-> <<200>>,
    discount |-> <<36>>, lineItems |-> <<l>>] :
     n \in InvoiceNumbers, s \in StatusInputs,
     l \in SeqsUpTo(LineInputs, MaxLines)}

ItemBodies ==
  {[unitPrice |-> <<50>>, taxIds |-> <<t>>] : t \in SeqsUpTo({1, 2}, MaxTaxes)}

----------------------------------------------------------------------------
(* The API over a database that holds a small catalog                      *)

NoResponse == Answer("", 0, <<>>, 0, "")

NoPreview == [copy |-> "", totals |-> [outcome |-> "none"]]

InitForm ==
  /\ formMode = "closed"
  /\ formInvoice = <<>>
  /\ formLineItems = <<>>
  /\ formItems = <<>>
  /\ formDiscount = <<>>
  /\ preview = NoPreview

Init ==
  /\ customers = {1}
  /\ taxes = {[id |-> 1, percentage |-> 18]}
  /\ items = {[id |-> 1, unitPrice |-> 100], [id |-> 2, unitPrice |-> 50]}
  /\ itemTaxes = <<[itemId |-> 1, taxId |-> 1]>>
  /\ invoices = {}
  /\ invoiceLineItems = <<>>
  /\ nextId = [customers |-> 1, taxes |-> 1, items |-> 2, invoices |-> 0]
  /\ response = NoResponse
  /\ InitForm

PostInvoiceRequest ==
  \E body \in InvoiceBodies, fault \in InsertFaults :
    nextId.invoices < MaxInvoices /\ PostInvoice(body, fault)

PutInvoiceRequest ==
  \E id \in 1..MaxInvoices, body \in InvoiceBodies : PutInvoice(id, body)

DeleteInvoiceRequest ==
  \E id \in 1..MaxInvoices : DeleteInvoice(id)

Next ==
  \/ PostInvoiceRequest
  \/ PutInvoiceRequest
  \/ DeleteInvoiceRequest

Spec == Init /\ [][Next]_vars

----------------------------------------------------------------------------
(* Replacing the children of an invoice and of an item: the API over a     *)
(* database that already holds two invoices with their line items          *)

GhostInvoice == 9

ReplaceInvoiceBodies ==
  {[status |-> <<"paid">>, lineItems |-> <<l>>] :
     l \in SeqsUpTo(LineInputs, MaxLines)}

StoredInvoice(id, number) ==
  [id |-> id, invoiceNumber |-> number, customerId |-> 1, subtotal |-> 200,
   totalTax |-> 36, discount |-> DiscountDefault, total |-> 200,
   status |-> "pending"]

InitReplace ==
  /\ customers = {1}
  /\ taxes = {[id |-> 1, percentage |-> 18]}
  /\ items = {[id |-> 1, unitPrice |-> 100], [id |-> 2, unitPrice |-> 50]}
  /\ itemTaxes = <<[itemId |-> 1, taxId |-> 1], [itemId |-> 2, taxId |-> 1]>>
  /\ invoices = {StoredInvoice(1, "INV-1"), StoredInvoice(2, "INV-2")}
  /\ invoiceLineItems =
       <<[invoiceId |-> 1, itemId |-> 1, quantity |-> 2, unitPrice |-> 100,
          total |-> 200],
         [invoiceId |-> 2, itemId |-> 1, quantity |-> 2, unitPrice |-> 100,
          total |-> 200]>>
  /\ nextId = [customers |-> 1, taxes |-> 1, items |-> 2, invoices |-> 2]
  /\ response = NoResponse
  /\ InitForm

ReplaceLineItems ==
  \E id \in Ids(invoices) \cup {GhostInvoice}, body \in ReplaceInvoiceBodies :
    PutInvoice(id, body)

ReplaceItemTaxes ==
  \E id \in Ids(items) \cup {GhostItem}, body \in ItemBodies : PutItem(id, body)

NextReplace == ReplaceLineItems \/ ReplaceItemTaxes

SpecReplace == InitReplace /\ [][NextReplace]_vars

----------------------------------------------------------------------------
(* The catalog routes over the same database: items and taxes are created, *)
(* edited and deleted while invoices refer to item 1                       *)

MaxItemIds == 3     \* item ids given out over a run, the stored two included
MaxTaxIds == 2      \* tax ids given out over a run, the stored one included

CatalogItemBodies ==
  {[unitPrice |-> <<50>>, taxIds |-> <<t>>] : t \in {<<>>, <<1>>, <<1, 2>>}}

\* the bodies of POST /api/items: those, and one without a unit price
NewItemBodies == CatalogItemBodies \cup {[unitPrice |-> <<>>, taxIds |-> <<>>]}

TaxBodies == {[percentage |-> <<10>>], [percentage |-> <<>>]}

CreateItemRequest ==
  \E body \in NewItemBodies : nextId.items < MaxItemIds /\ PostItem(body)

UpdateItemRequest ==
  \E id \in 1..MaxItemIds, body \in CatalogItemBodies : PutItem(id, body)

DeleteItemRequest ==
  \E id \in 1..MaxItemIds : DeleteItem(id)

CreateTaxRequest ==
  \E body \in TaxBodies : nextId.taxes < MaxTaxIds /\ PostTax(body)

DeleteTaxRequest ==
  \E id \in 1..MaxTaxIds : DeleteTax(id)

NextCatalog ==
  \/ CreateItemRequest
  \/ UpdateItemRequest
  \/ DeleteItemRequest
  \/ CreateTaxRequest
  \/ DeleteTaxRequest

SpecCatalog == InitReplace /\ [][NextCatalog]_vars

----------------------------------------------------------------------------
(* The invoice routes given values the data model rules out: a status that *)
(* is none of pending, paid and overdue, a quantity of 0, a negative price *)

InputStatuses == {"pending", "paid", "overdue", "draft"}

InputLineLists ==
  {<<>>,
   <<[itemId |-> 1, quantity |-> 0, unitPrice |-> 100, total |-> 0]>>,
   <<[itemId |-> 1, quantity |-> 1, unitPrice |-> -50, total |-> -50]>>}

InputBodies ==
  {[invoiceNumber |-> <<n>>, customerId |-> <<1>>, status |-> <<s>>,
    subtotal |-> <<200>>, totalTax |-> <<36>>, total |-> <<236>>,
    lineItems |-> <<l>>] :
     n \in InvoiceNumbers, s \in InputStatuses, l \in InputLineLists}

InputUpdates ==
  {[status |-> <<s>>, lineItems |-> <<l>>] :
     s \in InputStatuses, l \in InputLineLists}

CreateInvoiceInput ==
  \E body \in InputBodies :
    nextId.invoices < MaxInvoices /\ PostInvoice(body, "")

UpdateInvoiceInput ==
  \E id \in 1..MaxInvoices, body \in InputUpdates : PutInvoice(id, body)

NextInputs ==
  \/ CreateInvoiceInput
  \/ UpdateInvoiceInput
  \/ DeleteInvoiceRequest
  \/ GetInvoiceStats

SpecInputs == Init /\ [][NextInputs]_vars

----------------------------------------------------------------------------
(* PUT requests whose body carries fields of the row only: no lineItems   *)
(* key for an invoice, no taxIds key for an item                           *)

InvoiceFieldBodies == {[status |-> <<s>>] : s \in {"paid", "overdue"}}

ItemFieldBodies == {[unitPrice |-> <<p>>] : p \in {50, 100}}

UpdateInvoiceFields ==
  \E id \in Ids(invoices) \cup {GhostInvoice}, body \in InvoiceFieldBodies :
    PutInvoice(id, body)

UpdateItemFields ==
  \E id \in Ids(items) \cup {GhostItem}, body \in ItemFieldBodies :
    PutItem(id, body)

NextFields == UpdateInvoiceFields \/ UpdateItemFields

SpecFields == InitReplace /\ [][NextFields]_vars

----------------------------------------------------------------------------
(* Properties of the stored invoices                                       *)

LinesOf(table, id) == SelectSeq(table, LAMBDA row : row.invoiceId = id)
LinksOf(table, id) == SelectSeq(table, LAMBDA row : row.itemId = id)

UniqueViolation == "UNIQUE constraint failed: invoices.invoice_number"

\* C6: no two stored invoices ever have the same invoiceNumber; a POST
\* that stores anything stores one new invoice whose number no invoice
\* had, and a POST the unique index rejects is answered 500 and leaves
\* invoices and line items as they were
C6_InvoiceNumberUnique ==
  /\ [](\A a, b \in invoices : a.invoiceNumber = b.invoiceNumber => a = b)
  /\ [][(/\ response'.route = "POST /api/invoices"
         /\ \/ invoices' # invoices
            \/ invoiceLineItems' # invoiceLineItems
            \/ response'.status = 201)
        => \E row \in invoices' \ invoices :
             /\ row.id = response'.id
             /\ \A old \in invoices : old.invoiceNumber # row.invoiceNumber]_vars
  /\ [][(response'.route = "POST /api/invoices"
         /\ response'.error = UniqueViolation)
        => /\ response'.status = 500
           /\ invoices' = invoices
           /\ invoiceLineItems' = invoiceLineItems]_vars

\* C6 witness: a POST was rejected by the unique index while an invoice is
\* stored
C6_Witness ==
  /\ response.route = "POST /api/invoices"
  /\ response.error = UniqueViolation
  /\ invoices # {}

\* C7: a PUT /api/invoices/:id that fails leaves the invoice rows and the
\* line items exactly as they were before the call
C7_UpdateInvoiceAllOrNothing ==
  [][(response'.route = "PUT /api/invoices/:id" /\ response'.status = 500)
     => (invoices' = invoices /\ invoiceLineItems' = invoiceLineItems)]_vars

\* C8: after a POST /api/invoices that was answered with a failure no
\* invoice row of that request is stored
C8_FailedCreateStoresNoInvoice ==
  [][(response'.route = "POST /api/invoices" /\ response'.status >= 400)
     => invoices' = invoices]_vars

\* C9: after a successful PUT /api/invoices/:id the stored line items of
\* that invoice are exactly the entries the request carried, in order, and
\* the line items of every other invoice are unchanged; after a successful
\* PUT /api/items/:id the stored tax links of that item are exactly the
\* taxIds the request carried and the links of every other item are
\* unchanged
C9_UpdateReplacesChildren ==
  /\ [][(response'.route = "PUT /api/invoices/:id" /\ response'.status = 200)
        => LET sent == response'.children
               now == LinesOf(invoiceLineItems', response'.id)
           IN /\ Len(now) = Len(sent)
              /\ \A i \in 1..Len(sent) :
                   /\ now[i].itemId = sent[i].itemId
                   /\ now[i].quantity = sent[i].quantity
                   /\ now[i].unitPrice = sent[i].unitPrice
                   /\ now[i].total = sent[i].total
              /\ \A other \in (Ids(invoices) \cup Ids(invoices'))
                                \ {response'.id} :
                   LinesOf(invoiceLineItems', other)
                     = LinesOf(invoiceLineItems, other)]_vars
  /\ [][(response'.route = "PUT /api/items/:id" /\ response'.status = 200)
        => LET sent == response'.children
               now == LinksOf(itemTaxes', response'.id)
           IN /\ Len(now) = Len(sent)
              /\ \A i \in 1..Len(sent) : now[i].taxId = sent[i]
              /\ \A other \in (Ids(items) \cup Ids(items')) \ {response'.id} :
                   LinksOf(itemTaxes', other) = LinksOf(itemTaxes, other)]_vars

\* C9 witness: a PUT replaced the one line item of an invoice by two while
\* the other invoice keeps its line, and the links of item 1 were replaced
C9_Witness ==
  /\ response.route = "PUT /api/invoices/:id"
  /\ response.status = 200
  /\ Len(response.children) = 2
  /\ Len(LinesOf(invoiceLineItems, response.id)) = 2
  /\ \E other \in Ids(invoices) \ {response.id} :
       Len(LinesOf(invoiceLineItems, other)) = 1
  /\ Len(LinksOf(itemTaxes, 1)) # 1

\* C24: a PUT /api/invoices/:id without a lineItems key leaves the stored
\* line items of the invoice as they were, and a PUT /api/items/:id
\* without a taxIds key leaves the tax links of the item as they were
C24_FieldUpdateKeepsChildren ==
  [][/\ (response'.route = "PUT /api/invoices/:id" /\ response'.status = 200)
        => LinesOf(invoiceLineItems', response'.id)
             = LinesOf(invoiceLineItems, response'.id)
     /\ (response'.route = "PUT /api/items/:id" /\ response'.status = 200)
        => LinksOf(itemTaxes', response'.id)
             = LinksOf(itemTaxes, response'.id)]_vars

\* C10: every stored line item has total = quantity * unitPrice
C10_LineTotalIsQuantityTimesPrice ==
  \A i \in 1..Len(invoiceLineItems) :
    invoiceLineItems[i].total
      = invoiceLineItems[i].quantity * invoiceLineItems[i].unitPrice

\* C12: a POST /api/invoices that the unique index on the invoice number
\* rejected is not answered with the generic failure of the route, status
\* 500 with the message "Failed to create invoice"
C12_ConflictIsReportedDistinctly ==
  (response.route = "POST /api/invoices" /\ response.error = UniqueViolation)
  => ~(response.status = 500 /\ response.message = "Failed to create invoice")

\* C16: every stored line item belongs to a stored invoice, and after a
\* DELETE /api/invoices/:id that succeeded neither the invoice nor any of
\* its line items is stored
C16_LineItemsBelongToStoredInvoices ==
  /\ [](\A i \in 1..Len(invoiceLineItems) :
          invoiceLineItems[i].invoiceId \in Ids(invoices))
  /\ [][(response'.route = "DELETE /api/invoices/:id"
         /\ response'.status = 204)
        => /\ response'.id \notin Ids(invoices')
           /\ LinesOf(invoiceLineItems', response'.id) = <<>>
           /\ \A other \in Ids(invoices) \ {response'.id} :
                LinesOf(invoiceLineItems', other)
                  = LinesOf(invoiceLineItems, other)]_vars

\* C16 witness: invoice 1 was deleted while the other invoice is stored
\* with two line items
C16_Witness ==
  /\ response.route = "DELETE /api/invoices/:id"
  /\ response.status = 204
  /\ response.id = 1
  /\ Ids(invoices) = {2}
  /\ Len(LinesOf(invoiceLineItems, 2)) = 2

\* C18: a PUT /api/invoices/:id for an id of no stored invoice is answered
\* 404 and leaves invoices and line items as they were
C18_PutOfMissingInvoiceIsNotFound ==
  [][(response'.route = "PUT /api/invoices/:id"
      /\ response'.id \notin Ids(invoices))
     => /\ response'.status = 404
        /\ invoices' = invoices
        /\ invoiceLineItems' = invoiceLineItems]_vars

\* C20: when the INSERT of the invoice row raised an error the POST is
\* answered with a failure, and createInvoice issued that INSERT once
C20_InsertErrorIsSurfaced ==
  (response.route = "POST /api/invoices" /\ response.raised # "")
  => (response.status = 500 /\ response.inserts = 1)

\* C13: no stored invoice line item has a quantity <= 0 or a negative unit
\* price (a POST or PUT that carries such a line is rejected and stores
\* nothing)
C13_NoInvalidLineItemStored ==
  \A i \in 1..Len(invoiceLineItems) :
    invoiceLineItems[i].quantity > 0 /\ invoiceLineItems[i].unitPrice >= 0

\* C14: the status of every stored invoice is pending, paid or overdue (a
\* POST or PUT with another status is rejected and stores nothing)
C14_StatusIsOneOfThree ==
  \A inv \in invoices : inv.status \in {"pending", "paid", "overdue"}

\* C15: GET /api/invoices/stats answers total = the number of stored
\* invoices and paid, pending, overdue = the number of stored invoices of
\* that status, and changes nothing that is stored
C15_StatsCountTheStoredInvoices ==
  /\ [](response.route = "GET /api/invoices/stats"
         => /\ response.status = 200
            /\ response.stats =
                 <<[total |-> Cardinality(invoices),
                    paid |-> Cardinality({inv \in invoices :
                                           inv.status = "paid"}),
                    pending |-> Cardinality({inv \in invoices :
                                              inv.status = "pending"}),
                    overdue |-> Cardinality({inv \in invoices :
                                              inv.status = "overdue"})]>>)
  /\ [][response'.route = "GET /api/invoices/stats"
        => UNCHANGED <<customers, taxes, items, itemTaxes, invoices,
                       invoiceLineItems, nextId>>]_vars

\* C15 witness: the stats of one paid and one overdue invoice were answered
C15_Witness ==
  /\ response.route = "GET /api/invoices/stats"
  /\ response.stats = <<[total |-> 2, paid |-> 1, pending |-> 0,
                         overdue |-> 1]>>
  /\ Cardinality(invoices) = 2

\* C28: the counts that GET /api/invoices/stats answers satisfy
\* total = paid + pending + overdue, whatever invoices the API has accepted
C28_StatsAddUp ==
  (response.route = "GET /api/invoices/stats" /\ Len(response.stats) = 1)
  => LET stats == response.stats[1]
     IN stats.total = stats.paid + stats.pending + stats.overdue

\* C11: a PUT /api/items/:id (a new unit price, new tax links) and a DELETE
\* /api/items/:id leave every stored invoice line item as it was, those
\* that refer to the edited or deleted item included
C11_ItemEditsKeepLineItems ==
  [][response'.route \in {"PUT /api/items/:id", "DELETE /api/items/:id"}
     => invoiceLineItems' = invoiceLineItems]_vars

\* C11 witness: the price of item 1 was changed from 100 to 50 and its
\* deletion was asked for, while a line item of item 1 priced 100 is stored
C11_Witness ==
  /\ response.route = "DELETE /api/items/:id"
  /\ response.id = 1
  /\ \A row \in items : row.id = 1 => row.unitPrice = 50
  /\ \E i \in 1..Len(invoiceLineItems) :
       /\ invoiceLineItems[i].itemId = 1
       /\ invoiceLineItems[i].unitPrice = 100
       /\ invoiceLineItems[i].total = 200

\* C17: every stored item-tax link refers to a stored item and a stored
\* tax; after a DELETE /api/items/:id that succeeded no link of that item
\* is stored, after a DELETE /api/taxes/:id none of that tax
C17_LinksReferToStoredRows ==
  /\ [](\A i \in 1..Len(itemTaxes) :
          /\ itemTaxes[i].itemId \in Ids(items)
          /\ itemTaxes[i].taxId \in Ids(taxes))
  /\ [][(response'.route = "DELETE /api/items/:id" /\ response'.status = 204)
        => /\ response'.id \notin Ids(items')
           /\ \A i \in 1..Len(itemTaxes') :
                itemTaxes'[i].itemId # response'.id]_vars
  /\ [][(response'.route = "DELETE /api/taxes/:id" /\ response'.status = 204)
        => /\ response'.id \notin Ids(taxes')
           /\ \A i \in 1..Len(itemTaxes') :
                itemTaxes'[i].taxId # response'.id]_vars

\* C17 witness: tax 1 was deleted while links to it were stored, and a link
\* to another tax remains
C17_Witness ==
  /\ response.route = "DELETE /api/taxes/:id"
  /\ response.status = 204
  /\ response.id = 1
  /\ Len(itemTaxes) > 0

\* C30: no item has two stored item-tax links to the same tax, whatever
\* taxIds lists the creations and updates of items carried
C30_LinksOfAnItemAreASet ==
  \A item \in items :
    LET links == LinksOf(itemTaxes, item.id)
    IN \A i, j \in 1..Len(links) :
         links[i].taxId = links[j].taxId => i = j

----------------------------------------------------------------------------
(* The totals computation on its own: every input of the bounded sets, and *)
(* one rendering of the form by either copy of the component               *)

Percentages == {10, 18}
TaxLists == SeqsUpTo(Percentages, MaxTaxes)

\* the catalog as GET /api/items answers it: each item with its taxes
Catalogs ==
  {<<[id |-> 2, unitPrice |-> 50, taxes |-> <<10>>],
     [id |-> 1, unitPrice |-> 100, taxes |-> t]>> : t \in TaxLists}

QuantityPrice == {<<2, 100>>, <<1, 50>>, <<0, 100>>, <<-1, 100>>, <<2, -50>>}

FormLines ==
  {[itemId |-> i, quantity |-> qp[1], unitPrice |-> qp[2]] :
     i \in {Blank, 1, 2}, qp \in QuantityPrice}

DiscountInputs == {<<>>, <<36>>, <<236>>, <<500>>, <<-36>>}

InitTotals ==
  /\ customers = {}
  /\ taxes = {}
  /\ items = {}
  /\ itemTaxes = <<>>
  /\ invoices = {}
  /\ invoiceLineItems = <<>>
  /\ nextId = [customers |-> 0, taxes |-> 0, items |-> 0, invoices |-> 0]
  /\ response = NoResponse
  /\ formMode = "create"
  /\ formInvoice = <<>>
  /\ formLineItems \in SeqsUpTo(FormLines, MaxLines)
  /\ formItems \in Catalogs
  /\ formDiscount \in DiscountInputs
  /\ preview = NoPreview

\* const totals = calculateTotals() of invoice-form.tsx
Render ==
  /\ preview.copy = ""
  /\ preview' = [copy |-> "invoice-form",
                 totals |-> calculateTotals(formLineItems, formItems,
                                            formDiscount)]
  /\ UNCHANGED <<storeVars, formMode, formInvoice, formLineItems, formItems,
                 formDiscount>>

\* const totals = calculateTotals() of the second copy of the form
RenderLegacy ==
  /\ preview.copy = ""
  /\ preview' = [copy |-> "legacy",
                 totals |-> calculateTotalsLegacy(formLineItems, formItems)]
  /\ UNCHANGED <<storeVars, formMode, formInvoice, formLineItems, formItems,
                 formDiscount>>

NextTotals == Render \/ RenderLegacy

SpecTotals == InitTotals /\ [][NextTotals]_vars

Resolves(lineItem, catalog) == find(catalog, lineItem.itemId) # 0

TaxesOf(lineItem, catalog) == catalog[find(catalog, lineItem.itemId)].taxes

\* the sum over the lines of quantity * unitPrice
ExpectedSubtotal(lineItems) ==
  SumSeq([i \in 1..Len(lineItems) |->
            lineItems[i].quantity * lineItems[i].unitPrice])

\* the sum over the lines and over the line's item taxes of
\* quantity * unitPrice * percentage, divided by 100
ExpectedTax(lineItems, catalog) ==
  SumSeq([i \in 1..Len(lineItems) |->
            lineItems[i].quantity * lineItems[i].unitPrice
              * SumSeq(TaxesOf(lineItems[i], catalog))]) \div 100

Rendered == preview.copy = "invoice-form"

C3_TotalNeverNegative ==
  Rendered
  => /\ preview.totals.total >= 0
     /\ NumberOrZero(formDiscount)
          >= preview.totals.subtotal + preview.totals.totalTax
        => preview.totals.total = 0

\* C3 witness: a discount of 500 against 236 gave a total of 0
C3_Witness ==
  /\ Rendered
  /\ formDiscount = <<500>>
  /\ preview.totals.subtotal + preview.totals.totalTax = 236
  /\ preview.totals.total = 0

\* C4: with a negative discount calculateTotals returns the total it
\* returns for discount 0, max(0, subtotal + totalTax)
C4_NegativeDiscountIsZero ==
  (Rendered /\ NumberOrZero(formDiscount) < 0)
  => preview.totals.total
       = Max(0, preview.totals.subtotal + preview.totals.totalTax)

\* C19: for the same line items, catalog and discount the two copies of
\* calculateTotals return the same subtotal, totalTax and total
C19_BothCopiesAgree ==
  Rendered
  => LET other == calculateTotalsLegacy(formLineItems, formItems)
     IN /\ preview.totals.subtotal = other.subtotal
        /\ preview.totals.totalTax = other.totalTax
        /\ preview.totals.total = other.total

InvalidLine(lineItem, catalog) ==
  \/ lineItem.quantity <= 0
  \/ lineItem.unitPrice < 0
  \/ ~Resolves(lineItem, catalog)

\* C5: whenever some line has quantity <= 0, or unitPrice < 0, or an
\* itemId that does not resolve in the catalog, the totals computation (of
\* either copy) ends in the InvalidLineItem outcome and returns no totals
C5_InvalidLineItemIsAnError ==
  (/\ preview.copy # ""
   /\ \E i \in 1..Len(formLineItems) :
        InvalidLine(formLineItems[i], formItems))
  => preview.totals.outcome = "InvalidLineItem"

PercentagesOf(taxList) == {taxList[i] : i \in 1..Len(taxList)}

\* the tax lists another item of the catalog may have
OtherTaxLists == SeqsUpTo(Percentages \cup {28}, MaxTaxes)

\* the catalog with the taxes of its item 1 replaced
WithTaxes(catalog, taxList) ==
  [i \in 1..Len(catalog) |->
     IF catalog[i].id = 1 THEN [catalog[i] EXCEPT !.taxes = taxList]
     ELSE catalog[i]]

SingleLineOfItem1 ==
  /\ Rendered
  /\ Len(formLineItems) = 1
  /\ formLineItems[1].itemId = 1

\* C22: a single line, totalled once for an item with one set of tax
\* percentages and once for an item with a different set, with the same
\* quantity and unit price: the subtotal is the same and the totalTax
\* differs
C22_DifferentTaxSetsDifferentTax ==
  SingleLineOfItem1
  => \A other \in OtherTaxLists :
       PercentagesOf(other)
         # PercentagesOf(TaxesOf(formLineItems[1], formItems))
       => LET totals == calculateTotals(formLineItems,
                                        WithTaxes(formItems, other),
                                        formDiscount)
          IN /\ totals.subtotal = preview.totals.subtotal
             /\ totals.totalTax # preview.totals.totalTax

\* C22 as it holds: the subtotal is the same whatever the two tax lists
\* are; the totalTax is the same when quantity * unitPrice is 0, and
\* differs when quantity * unitPrice is not 0 and the two lists of
\* percentages have different sums
C22_TaxDiffersWithTheSumOfPercentages ==
  SingleLineOfItem1
  => \A other \in OtherTaxLists :
       LET totals == calculateTotals(formLineItems,
                                     WithTaxes(formItems, other),
                                     formDiscount)
           lineTotal == formLineItems[1].quantity * formLineItems[1].unitPrice
           sameSum == SumSeq(other)
                        = SumSeq(TaxesOf(formLineItems[1], formItems))
       IN /\ totals.subtotal = preview.totals.subtotal
          /\ lineTotal = 0 => totals.totalTax = preview.totals.totalTax
          /\ (lineTotal # 0 /\ ~sameSum)
               => totals.totalTax # preview.totals.totalTax

\* C22 witness: a line of 2 at 100 was totalled for an item taxed 10% and
\* 18%; for an item taxed 28% the tax is the same 56, for one taxed 18% it
\* is 36
C22_Witness ==
  /\ SingleLineOfItem1
  /\ formLineItems[1].quantity = 2
  /\ formLineItems[1].unitPrice = 100
  /\ TaxesOf(formLineItems[1], formItems) = <<10, 18>>
  /\ preview.totals.totalTax = 56
  /\ calculateTotals(formLineItems, WithTaxes(formItems, <<28>>),
                     formDiscount).totalTax = 56
  /\ calculateTotals(formLineItems, WithTaxes(formItems, <<18>>),
                     formDiscount).totalTax = 36

----------------------------------------------------------------------------
(* calculateTotals applied to prices with a fraction                      *)

\* a line as the form state holds it: quantity and unitPrice are numbers
NumberLines ==
  {[itemId |-> i, quantity |-> Integer(1), unitPrice |-> Hundredths(h)] :
     i \in {1, 2}, h \in {10, 100}}

\* the text of the discount input, in hundredths
NumberDiscounts == {<<>>, <<5>>}

InitNumbers ==
  /\ customers = {}
  /\ taxes = {}
  /\ items = {}
  /\ itemTaxes = <<>>
  /\ invoices = {}
  /\ invoiceLineItems = <<>>
  /\ nextId = [customers |-> 0, taxes |-> 0, items |-> 0, invoices |-> 0]
  /\ response = NoResponse
  /\ formMode = "create"
  /\ formInvoice = <<>>
  /\ formLineItems \in SeqsUpTo(NumberLines, MaxLines)
  /\ formItems \in Catalogs
  /\ formDiscount \in NumberDiscounts
  /\ preview = NoPreview

\* const totals = calculateTotals() of invoice-form.tsx
RenderNumbers ==
  /\ preview.copy = ""
  /\ preview' = [copy |-> "invoice-form",
                 totals |-> calculateTotalsNumbers(formLineItems, formItems,
                                                   formDiscount)]
  /\ UNCHANGED <<storeVars, formMode, formInvoice, formLineItems, formItems,
                 formDiscount>>

NextNumbers == RenderNumbers

SpecNumbers == InitNumbers /\ [][NextNumbers]_vars

\* the line items in another order
Reordered(lineItems) ==
  {[i \in 1..Len(lineItems) |-> lineItems[p[i]]] :
     p \in Permutations(1..Len(lineItems))}

\* C21: calculateTotals returns the same subtotal, totalTax and total for
\* the line items in any other order, with the same catalog and discount
C21_OrderDoesNotMatter ==
  Rendered
  => \A reordered \in Reordered(formLineItems) :
       calculateTotalsNumbers(reordered, formItems, formDiscount)
         = preview.totals

----------------------------------------------------------------------------
(* The invoice form as a client of the API: one form, mounted to create an *)
(* invoice, edited line by line and submitted                              *)

\* the rows of a table as a list, latest id first (orderBy desc createdAt)
RECURSIVE LatestFirst(_)
LatestFirst(table) ==
  IF table = {} THEN <<>>
  ELSE LET last == CHOOSE row \in table : \A r \in table : r.id <= row.id
       IN <<last>> \o LatestFirst(table \ {last})

\* storage.getItems(): every item with the taxes its links join to
getItems(db) ==
  LET allItems == LatestFirst(db.items)
      TaxOf(link) == CHOOSE tax \in db.taxes : tax.id = link.taxId
      itemTaxRows(item) ==
        SelectSeq(db.itemTaxes,
                  LAMBDA link : /\ link.itemId = item.id
                                /\ \E tax \in db.taxes : tax.id = link.taxId)
  IN [i \in 1..Len(allItems) |->
        [id |-> allItems[i].id,
         unitPrice |-> allItems[i].unitPrice,
         taxes |-> [k \in 1..Len(itemTaxRows(allItems[i])) |->
                      TaxOf(itemTaxRows(allItems[i])[k]).percentage]]]

\* updated[index] = { ...updated[index], [field]: value }
updateLineItem(lineItems, index, field, value) ==
  [lineItems EXCEPT ![index] = [@ EXCEPT ![field] = value]]

\* parseInt(e.target.value) || 1 and parseFloat(e.target.value) || 0 on
\* the text of a number input
ParseOr(text, fallback) ==
  IF Len(text) = 0 \/ text[1] = 0 THEN fallback ELSE text[1]

QuantityTexts == {<<>>, <<0>>, <<2>>, <<-1>>}
RateTexts == {<<>>, <<50>>}
DiscountTexts == {<<>>, <<36>>, <<500>>}

Rerender(lineItems, discountField) ==
  preview' = [copy |-> "invoice-form",
              totals |-> calculateTotals(lineItems, formItems, discountField)]

addLineItem ==
  /\ formMode = "create"
  /\ Len(formLineItems) < MaxLines
  /\ formLineItems' =
       Append(formLineItems,
              [itemId |-> Blank, quantity |-> 1, unitPrice |-> 0])
  /\ Rerender(formLineItems', formDiscount)
  /\ UNCHANGED <<storeVars, formMode, formInvoice, formItems, formDiscount>>

removeLineItem ==
  \E index \in 1..Len(formLineItems) :
    /\ formMode = "create"
    /\ formLineItems' = [i \in 1..(Len(formLineItems) - 1) |->
                           IF i < index THEN formLineItems[i]
                           ELSE formLineItems[i + 1]]
    /\ Rerender(formLineItems', formDiscount)
    /\ UNCHANGED <<storeVars, formMode, formInvoice, formItems, formDiscount>>

\* the item select's onChange: the itemId, then the item's price, each
\* update applied to the state the one before it left
SelectItemAt(index, value) ==
  LET withItem == updateLineItem(formLineItems, index, "itemId", value)
      idx == find(formItems, value)
  IN /\ formMode = "create"
     /\ formLineItems' =
          IF idx # 0
          THEN updateLineItem(withItem, index, "unitPrice",
                              formItems[idx].unitPrice)
          ELSE withItem
     /\ Rerender(formLineItems', formDiscount)
     /\ UNCHANGED <<storeVars, formMode, formInvoice, formItems, formDiscount>>

SelectItem ==
  \E index \in 1..Len(formLineItems), value \in {Blank, 1, 2} :
    SelectItemAt(index, value)

ChangeQuantity ==
  \E index \in 1..Len(formLineItems), text \in QuantityTexts :
    /\ formMode = "create"
    /\ formLineItems' = updateLineItem(formLineItems, index, "quantity",
                                       ParseOr(text, 1))
    /\ Rerender(formLineItems', formDiscount)
    /\ UNCHANGED <<storeVars, formMode, formInvoice, formItems, formDiscount>>

ChangeRate ==
  \E index \in 1..Len(formLineItems), text \in RateTexts :
    /\ formMode = "create"
    /\ formLineItems' = updateLineItem(formLineItems, index, "unitPrice",
                                       ParseOr(text, 0))
    /\ Rerender(formLineItems', formDiscount)
    /\ UNCHANGED <<storeVars, formMode, formInvoice, formItems, formDiscount>>

ChangeDiscount ==
  \E text \in DiscountTexts :
    /\ formMode = "create"
    /\ formDiscount' = text
    /\ Rerender(formLineItems, formDiscount')
    /\ UNCHANGED <<storeVars, formMode, formInvoice, formItems, formLineItems>>

\* onSubmit: the request body, or no request when the form has no line
onSubmit(data, lineItems, totals) ==
  IF Len(lineItems) = 0 THEN <<>>
  ELSE LET kept == SelectSeq(lineItems,
                             LAMBDA item : item.itemId # Blank
                                           /\ item.quantity > 0)
           processedLineItems ==
             [i \in 1..Len(kept) |->
                [itemId |-> kept[i].itemId,
                 quantity |-> kept[i].quantity,
                 unitPrice |-> kept[i].unitPrice,
                 total |-> kept[i].quantity * kept[i].unitPrice]]
       IN <<[invoiceNumber |-> <<data.invoiceNumber>>,
             customerId |-> <<data.customerId>>,
             status |-> <<data.status>>,
             discount |-> data.discount,
             subtotal |-> <<totals.subtotal>>,
             totalTax |-> <<totals.totalTax>>,
             total |-> <<totals.total>>,
             lineItems |-> <<processedLineItems>>]>>

\* form.handleSubmit(onSubmit), the POST of createMutation and its
\* onSuccess, which closes the form
Submit ==
  \E number \in InvoiceNumbers, status \in StatusInputs :
    LET data == [invoiceNumber |-> number, customerId |-> 1,
                 status |-> status, discount |-> formDiscount]
        request == onSubmit(data, formLineItems, preview.totals)
    IN /\ formMode = "create"
       /\ Len(request) = 1
       /\ PostInvoiceHandler(request[1], "")
       /\ formMode' = IF response'.status = 201 THEN "closed" ELSE formMode
       /\ UNCHANGED <<formInvoice, formLineItems, formItems, formDiscount,
                      preview>>

InitFormClient ==
  /\ customers = {1}
  /\ taxes = {[id |-> 1, percentage |-> 18]}
  /\ items = {[id |-> 1, unitPrice |-> 100], [id |-> 2, unitPrice |-> 50]}
  /\ itemTaxes = <<[itemId |-> 1, taxId |-> 1]>>
  /\ invoices = {}
  /\ invoiceLineItems = <<>>
  /\ nextId = [customers |-> 1, taxes |-> 1, items |-> 2, invoices |-> 0]
  /\ response = NoResponse
  /\ formMode = "create"
  /\ formInvoice = <<>>
  /\ formLineItems = <<>>
  /\ formItems = getItems(DB)
  /\ formDiscount = <<0>>
  /\ preview = [copy |-> "invoice-form",
                totals |-> calculateTotals(<<>>, formItems, <<0>>)]

NextFormClient ==
  \/ addLineItem
  \/ removeLineItem
  \/ SelectItem
  \/ ChangeQuantity
  \/ ChangeRate
  \/ ChangeDiscount
  \/ Submit

SpecFormClient == InitFormClient /\ [][NextFormClient]_vars

----------------------------------------------------------------------------
(* The form mounted on a stored invoice: formMode is "edit" and            *)
(* formInvoice holds the invoice the page passed                           *)

\* the invoice as GET /api/invoices answers it: the columns of the row
\* that the schema declares (discount is not one of them) and its line
\* items
getInvoice(db, id) ==
  LET row == CHOOSE inv \in db.invoices : inv.id = id
  IN [id |-> row.id, invoiceNumber |-> row.invoiceNumber,
      customerId |-> row.customerId, status |-> row.status,
      subtotal |-> row.subtotal, totalTax |-> row.totalTax,
      total |-> row.total,
      lineItems |-> SelectSeq(db.invoiceLineItems,
                              LAMBDA line : line.invoiceId = id)]

\* setEditingInvoice(invoice) of the page, the defaultValues of the form
\* and the useEffect that loads invoice.lineItems into the form state
OpenInvoice ==
  \E id \in Ids(invoices) :
    LET invoice == getInvoice(DB, id)
    IN /\ formMode = "closed"
       /\ formMode' = "edit"
       /\ formInvoice' = <<invoice>>
       /\ formLineItems' =
            [i \in 1..Len(invoice.lineItems) |->
               [itemId |-> invoice.lineItems[i].itemId,
                quantity |-> invoice.lineItems[i].quantity,
                unitPrice |-> invoice.lineItems[i].unitPrice]]
       /\ formDiscount' = IF "discount" \in DOMAIN invoice
                          THEN <<invoice.discount>> ELSE <<0>>
       /\ Rerender(formLineItems', formDiscount')
       /\ UNCHANGED <<storeVars, formItems>>

\* form.handleSubmit(onSubmit) with the values the form was opened with,
\* the PUT of updateMutation and its onSuccess, which closes the form
SubmitEdit ==
  LET invoice == formInvoice[1]
      data == [invoiceNumber |-> invoice.invoiceNumber,
               customerId |-> invoice.customerId,
               status |-> invoice.status, discount |-> formDiscount]
      request == onSubmit(data, formLineItems, preview.totals)
  IN /\ formMode = "edit"
     /\ Len(request) = 1
     /\ PutInvoiceHandler(invoice.id, request[1])
     /\ formMode' = IF response'.status = 200 THEN "closed" ELSE formMode
     /\ formInvoice' = IF response'.status = 200 THEN <<>> ELSE formInvoice
     /\ UNCHANGED <<formLineItems, formItems, formDiscount, preview>>

NextEdit ==
  \/ addLineItem
  \/ SelectItem
  \/ ChangeRate
  \/ ChangeDiscount
  \/ Submit
  \/ OpenInvoice
  \/ SubmitEdit

SpecEdit == InitFormClient /\ [][NextEdit]_vars

\* C29: submitting the form that was opened on a stored invoice, with no
\* edit in between and the catalog as it was, leaves the invoice row
\* (subtotal, totalTax, discount, total) and its line items as they were
C29_EditSaveRoundTrip ==
  [][(formMode = "edit" /\ response'.route = "PUT /api/invoices/:id"
        /\ formMode' = "closed")
     => LET id == formInvoice[1].id
        IN /\ {inv \in invoices' : inv.id = id}
               = {inv \in invoices : inv.id = id}
           /\ LinesOf(invoiceLineItems', id)
               = LinesOf(invoiceLineItems, id)]_vars

----------------------------------------------------------------------------
(* The two copies of the form side by side: formMode is "legacy" while the *)
(* second copy is mounted for a new invoice                                *)

RerenderLegacy(lineItems) ==
  preview' = [copy |-> "legacy",
              totals |-> calculateTotalsLegacy(lineItems, formItems)]

\* setLineItems([...lineItems, {itemId: "", quantity: 1, unitPrice: 0}])
addLineItemLegacy ==
  /\ formMode = "legacy"
  /\ Len(formLineItems) < MaxLines
  /\ formLineItems' =
       Append(formLineItems,
              [itemId |-> Blank, quantity |-> 1, unitPrice |-> 0])
  /\ RerenderLegacy(formLineItems')
  /\ UNCHANGED <<storeVars, formMode, formInvoice, formItems, formDiscount>>

\* updateLineItem of the second copy: const updated = [...lineItems];
\* updated[index] = {...}; setLineItems(updated), where lineItems is the
\* state of the render the handler was created in
updateLineItemLegacy(rendered, index, field, value) ==
  [rendered EXCEPT ![index] = [@ EXCEPT ![field] = value]]

\* the item Select's onValueChange of the second copy: both calls of
\* updateLineItem start from the lineItems of the same render, and the
\* state after the event is what the last setLineItems was given
SelectItemLegacyAt(index, value) ==
  LET first == updateLineItemLegacy(formLineItems, index, "itemId", value)
      idx == find(formItems, value)
      second == updateLineItemLegacy(formLineItems, index, "unitPrice",
                                     formItems[idx].unitPrice)
  IN /\ formMode = "legacy"
     /\ formLineItems' = IF idx # 0 THEN second ELSE first
     /\ RerenderLegacy(formLineItems')
     /\ UNCHANGED <<storeVars, formMode, formInvoice, formItems, formDiscount>>

SelectItemLegacy ==
  \E index \in 1..Len(formLineItems), value \in {Blank, 1, 2} :
    SelectItemLegacyAt(index, value)

\* onChange of the quantity input of the second copy
ChangeQuantityLegacy ==
  \E index \in 1..Len(formLineItems), text \in QuantityTexts :
    /\ formMode = "legacy"
    /\ formLineItems' = updateLineItemLegacy(formLineItems, index, "quantity",
                                             ParseOr(text, 1))
    /\ RerenderLegacy(formLineItems')
    /\ UNCHANGED <<storeVars, formMode, formInvoice, formItems, formDiscount>>

InitCopies ==
  /\ customers = {1}
  /\ taxes = {[id |-> 1, percentage |-> 18]}
  /\ items = {[id |-> 1, unitPrice |-> 100], [id |-> 2, unitPrice |-> 50]}
  /\ itemTaxes = <<[itemId |-> 1, taxId |-> 1]>>
  /\ invoices = {}
  /\ invoiceLineItems = <<>>
  /\ nextId = [customers |-> 1, taxes |-> 1, items |-> 2, invoices |-> 0]
  /\ response = NoResponse
  /\ formMode \in {"create", "legacy"}
  /\ formInvoice = <<>>
  /\ formLineItems = <<>>
  /\ formItems = getItems(DB)
  /\ formDiscount = <<0>>
  /\ preview = IF formMode = "create"
               THEN [copy |-> "invoice-form",
                     totals |-> calculateTotals(<<>>, formItems, <<0>>)]
               ELSE [copy |-> "legacy",
                     totals |-> calculateTotalsLegacy(<<>>, formItems)]

NextCopies ==
  \/ addLineItem
  \/ SelectItem
  \/ ChangeQuantity
  \/ addLineItemLegacy
  \/ SelectItemLegacy
  \/ ChangeQuantityLegacy

SpecCopies == InitCopies /\ [][NextCopies]_vars

\* C26: selecting catalog item X for line i leaves that line with itemId X
\* and unitPrice X's catalog price, and every other line and the quantity
\* of line i as they were, in both copies of the form
C26_SelectSetsItemAndPrice ==
  [][\A index \in 1..Len(formLineItems), value \in {1, 2} :
       (SelectItemAt(index, value) \/ SelectItemLegacyAt(index, value))
       => formLineItems' =
            [formLineItems EXCEPT
               ![index] = [itemId |-> value,
                           quantity |-> @.quantity,
                           unitPrice |-> formItems[find(formItems, value)]
                                           .unitPrice]]]_vars

\* C1: every stored invoice satisfies
\* total = max(0, subtotal + totalTax - discount) with its stored discount
C1_StoredTotalMatchesStoredDiscount ==
  \A inv \in invoices :
    inv.total = Max(0, inv.subtotal + inv.totalTax - inv.discount)

\* C27: every line item the form holds has a quantity >= 1, and the
\* subtotal the form previews is never negative
C27_FormQuantityAtLeastOne ==
  /\ \A i \in 1..Len(formLineItems) : formLineItems[i].quantity >= 1
  /\ preview.totals.subtotal >= 0

\* C25: in every state of the form onSubmit sends no request or a request
\* whose lineItems list is not empty
C25_RequestCarriesALineItem ==
  \A number \in InvoiceNumbers, status \in StatusInputs :
    LET data == [invoiceNumber |-> number, customerId |-> 1,
                 status |-> status, discount |-> formDiscount]
        request == onSubmit(data, formLineItems, preview.totals)
    IN Len(request) = 1 => Len(request[1].lineItems[1]) > 0

\* C23: the subtotal stored for an invoice that the form saved is the sum
\* of the totals of the line items stored for it
C23_StoredSubtotalIsSumOfStoredLines ==
  \A inv \in invoices :
    LET lines == LinesOf(invoiceLineItems, inv.id)
    IN inv.subtotal = SumSeq([i \in 1..Len(lines) |-> lines[i].total])

====
